---- MODULE Spec2Model ----
(***************************************************************************)
(* Model of the two FastAPI services of the repository.                   *)
(*                                                                         *)
(*   src/main.py            CRUD API over the tables Team and Hero        *)
(*   src/First_app/main.py  token endpoint over a static user table       *)
(*                                                                         *)
(* Every handler is an `async def` without an await, so a request runs to *)
(* completion before the next one starts: one action per handler.  An     *)
(* action is the whole request: validation of the id, the update of the   *)
(* session, the commit (or the rollback when the commit fails) and the    *)
(* serialisation of the response.                                          *)
(*                                                                         *)
(* Optional[T] values are sequences of length at most one: None is << >>  *)
(* and a value v is <<v>>.  A payload is the dict model_dump(exclude_unset *)
(* = True) gives: a function whose domain is the set of provided fields.  *)
(***************************************************************************)
EXTENDS Integers, Sequences, FiniteSets, TLC

VARIABLES
    teams,      \* the rows of table team
    heroes,     \* the rows of table hero
    req,        \* the request the CRUD service is answering, NoRequest between requests
    resp,       \* the response to req
    auth_req,   \* the last request to the token service
    auth_resp,  \* its response
    issued      \* the access tokens the client was given so far

vars == <<teams, heroes, req, resp, auth_req, auth_resp, issued>>
crud_vars == <<teams, heroes, req, resp>>
auth_vars == <<auth_req, auth_resp, issued>>

\* Largest id a table hands out in the model (sqlite's rowid is unbounded).
MaxId == 2

None == << >>
Some(v) == <<v>>

Max(S) == CHOOSE m \in S : \A x \in S : x <= m

----------------------------------------------------------------------------
(* Values of the inputs. *)

TeamNames == {"Avengers", "XMen"}
Headquarters == {"NY", "LA"}
HeroNames == {"Tony"}
SecretNames == {"Iron"}
Ages == {None, Some(30)}
Passwords == {"pw1", "pw2"}
Ids == 1..MaxId
TeamRefs == {None, Some(1), Some(2)}

OptOf(S) == {None} \cup {Some(v) : v \in S}

\* The dicts that provide one of the sets of fields Shapes, with the values
\* of a record of Full.
Partial(Full, Shapes) == {[k \in D |-> r[k]] : D \in Shapes, r \in Full}

Provided(payload, field) == field \in DOMAIN payload

\* A request: the handler it is routed to, the id of its path (0 when the
\* path has none) and its validated body (NoBody when it has none).
NoBody == << >>
Request(op, id, body) == [op |-> op, id |-> id, body |-> body]
NoRequest == Request("", 0, NoBody)
Idle == req.op = ""

\* An HTTP response.
Response(status, body) == [status |-> status, body |-> body]
NoResponse == Response(0, "")
InternalServerError == Response(500, "Internal Server Error")

----------------------------------------------------------------------------
(* Schema: src/main.py 11-68 *)

PresentTeamIds(ts) == {t.id : t \in ts}
PresentHeroIds(hs) == {h.id : h \in hs}

\* session.get(Team, team_id): the row or None
GetTeam(ts, team_id) ==
    IF team_id \in PresentTeamIds(ts)
    THEN Some(CHOOSE t \in ts : t.id = team_id) ELSE None

\* session.get(Hero, hero_id): the row or None
GetHero(hs, hero_id) ==
    IF hero_id \in PresentHeroIds(hs)
    THEN Some(CHOOSE h \in hs : h.id = hero_id) ELSE None

\* A table that numbers its rows by their count.
NextIdByCount(ids) == Cardinality(ids) + 1

\* INTEGER PRIMARY KEY without AUTOINCREMENT: one more than the largest
\* rowid of the table, 1 for an empty table.  Ids of deleted rows are reused.
NextId(ids) == IF ids = {} THEN 1 ELSE Max(ids) + 1

TeamPublic(t) == [id |-> t.id, name |-> t.name, headquarters |-> t.headquarters]

HeroPublic(h) == [id |-> h.id, name |-> h.name, age |-> h.age, team_id |-> h.team_id]

\* Team.heroes: the heroes whose team_id is the team's id
HeroesOf(team_id, hs) == {h \in hs : h.team_id = Some(team_id)}

TeamPublicWithHeroes(t, hs) ==
    [id |-> t.id, name |-> t.name, headquarters |-> t.headquarters,
     heroes |-> {HeroPublic(h) : h \in HeroesOf(t.id, hs)}]

\* Hero.team: the team the foreign key names, None when there is none
HeroPublicWithTeam(h, ts) ==
    [id |-> h.id, name |-> h.name, age |-> h.age, team_id |-> h.team_id,
     team |-> IF h.team_id = None THEN None
              ELSE LET t == GetTeam(ts, h.team_id[1])
                   IN IF t = None THEN None ELSE Some(TeamPublic(t[1]))]

\* An Optional[str] formatted in an f-string: str(None) is "None"
PyStr(opt) == IF opt = None THEN "None" ELSE opt[1]

\* f'#$%{password}', of an Optional[str]
hash_password(password) == "#$%" \o PyStr(password)

\* db_obj.sqlmodel_update(data): every provided key that is a field of the
\* row is assigned, whatever its value (None included); the other fields and
\* the keys that are no field of the row (password) are left alone.
sqlmodel_update(row, data) ==
    [k \in DOMAIN row |-> IF k \in DOMAIN data THEN data[k] ELSE row[k]]

\* The row as the table stores it on commit.  The session object holds an
\* Optional value for every assigned field; a NOT NULL column stores the
\* plain value, a nullable column the Optional.
NotNullViolated(obj, notnull) == \E k \in notnull : obj[k] = None

----------------------------------------------------------------------------
(* Team routes: src/main.py 98-202 *)

\* A delete that cascades to the heroes of the team.
HeroesCascadeDeleted(hs, deleted) ==
    {h \in hs : ~(h.team_id # None /\ h.team_id[1] \in deleted)}

\* session.delete(team) and commit.  The relationship Team.heroes has no
\* delete cascade, so the unit of work de-associates the team's heroes: it
\* sets their team_id to NULL.  No hero row is deleted.
HeroesAfterTeamDelete(hs, deleted) ==
    {IF h.team_id # None /\ h.team_id[1] \in deleted
     THEN [h EXCEPT !.team_id = None] ELSE h : h \in hs}

TeamNotFound(team_id) ==
    Response(404, "team with team id " \o ToString(team_id) \o " not found")

create_teams(team) ==
    LET id == NextId(PresentTeamIds(teams))
        db_team == [id |-> id, name |-> team.name, headquarters |-> team.headquarters]
    IN /\ Idle
       /\ id <= MaxId
       /\ req' = Request("create_teams", 0, team)
       /\ teams' = teams \cup {db_team}
       /\ heroes' = heroes
       /\ resp' = Response(200, TeamPublicWithHeroes(db_team, heroes))
       /\ UNCHANGED auth_vars

fetch_all_teams ==
    /\ Idle
    /\ req' = Request("fetch_all_teams", 0, NoBody)
    /\ resp' = IF teams = {}
               THEN Response(404, "no records found")
               ELSE Response(200, {TeamPublicWithHeroes(t, heroes) : t \in teams})
    /\ UNCHANGED <<teams, heroes, auth_vars>>

fetch_one_team(team_id) ==
    LET id_list == PresentTeamIds(teams)
    IN /\ Idle
       /\ req' = Request("fetch_one_team", team_id, NoBody)
       /\ resp' = IF team_id \notin id_list
                  THEN TeamNotFound(team_id)
                  ELSE Response(200, TeamPublicWithHeroes(GetTeam(teams, team_id)[1], heroes))
       /\ UNCHANGED <<teams, heroes, auth_vars>>

\* The name team after the scan of update_team.  The loop of the scan
\* (for team in db_team) binds the name of the payload parameter to each row
\* in turn, and the table is not empty when the id is found: from then on
\* team is the last row of SELECT team, which SQLite reads in rowid order.
LastTeam(ts) == CHOOSE t \in ts : t.id = Max(PresentTeamIds(ts))

\* team.model_dump(exclude_unset = True) on that row.  A row the session
\* loaded has the fields the loader marked as set: none, or all of them
\* (id included), depending on the installed sqlmodel.
LoadedTeamDump(row, fields_set) ==
    IF fields_set THEN [k \in DOMAIN row |-> row[k]] ELSE NoBody

update_team(team_id, team) ==
    LET id_list == PresentTeamIds(teams)
        old == GetTeam(teams, team_id)[1]
    IN /\ Idle
       /\ req' = Request("update_team", team_id, team)
       /\ IF team_id \notin id_list
          THEN /\ resp' = TeamNotFound(team_id)
               /\ UNCHANGED <<teams, heroes>>
          ELSE \E fields_set \in BOOLEAN :
               LET team_update_data == LoadedTeamDump(LastTeam(teams), fields_set)
                   db_team == sqlmodel_update(old, team_update_data)
               IN IF db_team.id # old.id
                  THEN \* UPDATE team SET id = (the id of the last row):
                       \* IntegrityError on commit, the session rolls back
                       /\ resp' = InternalServerError
                       /\ UNCHANGED <<teams, heroes>>
                  ELSE /\ teams' = (teams \ {old}) \cup {db_team}
                       /\ heroes' = heroes
                       /\ resp' = Response(200, TeamPublicWithHeroes(db_team, heroes))
       /\ UNCHANGED auth_vars

\* The response of delete_one_team for an id no team has.  The detail of
\* the HTTPException is f'hero with id {hero_id} not found', and the handler
\* has no name hero_id: building the exception raises NameError, which the
\* server answers with 500.
DeletedTeamNotFound == InternalServerError

delete_one_team(team_id) ==
    LET id_list == PresentTeamIds(teams)
        db_team == GetTeam(teams, team_id)[1]
    IN /\ Idle
       /\ req' = Request("delete_one_team", team_id, NoBody)
       /\ IF team_id \notin id_list
          THEN /\ resp' = DeletedTeamNotFound
               /\ UNCHANGED <<teams, heroes>>
          ELSE /\ teams' = teams \ {db_team}
               /\ heroes' = HeroesAfterTeamDelete(heroes, {team_id})
               /\ resp' = Response(200, "team " \o db_team.name \o " deleted successfully")
       /\ UNCHANGED auth_vars

delete_all_team ==
    /\ Idle
    /\ req' = Request("delete_all_team", 0, NoBody)
    /\ teams' = {}
    /\ heroes' = HeroesAfterTeamDelete(heroes, PresentTeamIds(teams))
    /\ resp' = Response(200, "you have deleted all team")
    /\ UNCHANGED auth_vars

----------------------------------------------------------------------------
(* Hero routes: src/main.py 204-358 *)

HeroNotNull == {"name", "secret_name", "hashed_password"}

\* The session object of a stored hero: its str columns as Optional values.
HeroObject(h) ==
    [id |-> h.id, name |-> Some(h.name), age |-> h.age, team_id |-> h.team_id,
     secret_name |-> Some(h.secret_name), hashed_password |-> Some(h.hashed_password)]
HeroRow(obj) ==
    [id |-> obj.id, name |-> obj.name[1], age |-> obj.age, team_id |-> obj.team_id,
     secret_name |-> obj.secret_name[1], hashed_password |-> obj.hashed_password[1]]

\* A scan that collects nothing.
pwd_list_empty(hs) == {}

\* The hashes of the stored heroes.
pwd_list(hs) == {h.hashed_password : h \in hs}

\* The ids of the stored heroes.
id_list(hs) == PresentHeroIds(hs)

\* The foreign key hero.team_id -> team.id is declared (line 41), and sqlite
\* enforces foreign keys only on a connection that ran PRAGMA foreign_keys =
\* ON, which the engine (line 82) never does: an INSERT or UPDATE stores any
\* team_id, and no handler looks the team up.

create_hero(hero) ==
    LET hashed_password == hash_password(Some(hero.password))
        id == NextId(PresentHeroIds(heroes))
        db_hero == [id |-> id, name |-> hero.name, age |-> hero.age,
                    team_id |-> hero.team_id, secret_name |-> hero.secret_name,
                    hashed_password |-> hashed_password]
    IN /\ Idle
       /\ req' = Request("create_hero", 0, hero)
       /\ IF hashed_password \in pwd_list(heroes)
          THEN /\ resp' = Response(409, "password " \o hero.password \o " already taken")
               /\ heroes' = heroes
          ELSE /\ id <= MaxId
               /\ heroes' = heroes \cup {db_hero}
               /\ resp' = Response(200, HeroPublicWithTeam(db_hero, teams))
       /\ UNCHANGED <<teams, auth_vars>>

get_all_hero ==
    /\ Idle
    /\ req' = Request("get_all_hero", 0, NoBody)
    /\ resp' = IF heroes = {}
               THEN Response(404, " no records found")
               ELSE Response(200, {HeroPublicWithTeam(h, teams) : h \in heroes})
    /\ UNCHANGED <<teams, heroes, auth_vars>>

\* A handler that returns what session.get gave without looking at it.
HeroNotChecked(hero_id) == Response(200, None)

HeroNotFound(hero_id) ==
    Response(404, "hero with id " \o ToString(hero_id) \o " not found")

\* The response of GET /heroes/{hero_id} on the tables hs and ts.
GetOneHeroResponse(hs, ts, hero_id) ==
    IF hero_id \notin id_list(hs)
    THEN HeroNotFound(hero_id)
    ELSE Response(200, HeroPublicWithTeam(GetHero(hs, hero_id)[1], ts))

get_one_hero(hero_id) ==
    /\ Idle
    /\ req' = Request("get_one_hero", hero_id, NoBody)
    /\ resp' = GetOneHeroResponse(heroes, teams, hero_id)
    /\ UNCHANGED <<teams, heroes, auth_vars>>

\* A password change: any password is accepted and its hash stored.
PasswordChanged(password, db_hero) == TRUE

\* Whether update_heroes accepts the password of the payload: hashing it
\* must give the hash the row already stores.
PasswordAccepted(password, db_hero) ==
    hash_password(password) = db_hero.hashed_password

update_heroes(hero_id, hero) ==
    LET old == GetHero(heroes, hero_id)[1]
        extra == [hashed_password |-> Some(hash_password(hero.password))]
        db_hero == IF Provided(hero, "password")
                   THEN sqlmodel_update(sqlmodel_update(HeroObject(old), hero), extra)
                   ELSE sqlmodel_update(HeroObject(old), hero)
    IN /\ Idle
       /\ req' = Request("update_heroes", hero_id, hero)
       /\ IF hero_id \notin id_list(heroes)
          THEN /\ resp' = HeroNotFound(hero_id)
               /\ heroes' = heroes
          ELSE IF Provided(hero, "password") /\ ~PasswordAccepted(hero.password, old)
          THEN /\ resp' = Response(409, "password already taken")
               /\ heroes' = heroes
          ELSE IF NotNullViolated(db_hero, HeroNotNull)
          THEN \* IntegrityError on commit: the session rolls back
               /\ resp' = InternalServerError
               /\ heroes' = heroes
          ELSE /\ heroes' = (heroes \ {old}) \cup {HeroRow(db_hero)}
               /\ resp' = Response(200, HeroPublicWithTeam(HeroRow(db_hero), teams))
       /\ UNCHANGED <<teams, auth_vars>>

delete_all_hero ==
    /\ Idle
    /\ req' = Request("delete_all_hero", 0, NoBody)
    /\ heroes' = {}
    /\ resp' = Response(200, "heroes deleted")
    /\ UNCHANGED <<teams, auth_vars>>

delete_one_hero(hero_id) ==
    LET db_hero == GetHero(heroes, hero_id)
    IN /\ Idle
       /\ req' = Request("delete_one_hero", hero_id, NoBody)
       /\ IF db_hero = None
          THEN /\ resp' = Response(404, "Not Found")
               /\ heroes' = heroes
          ELSE /\ heroes' = heroes \ {db_hero[1]}
               /\ resp' = Response(200, "hero " \o db_hero[1].name \o " deleted")
       /\ UNCHANGED <<teams, auth_vars>>

\* The request is over: the response is sent and the session of the
\* request is closed.  Nothing of a request outlives it but the tables.
session_dep ==
    /\ ~Idle
    /\ req' = NoRequest
    /\ resp' = NoResponse
    /\ UNCHANGED <<teams, heroes, auth_vars>>

----------------------------------------------------------------------------
(* The token service: src/First_app/main.py                               *)
(*                                                                         *)
(* compare_digest tells strings of ASCII characters from the others, so   *)
(* the strings of this service are sequences of code points.              *)

S_johndoe == <<106, 111, 104, 110, 100, 111, 101>>  \* "johndoe"
S_alice == <<97, 108, 105, 99, 101>>  \* "alice"
S_bob == <<98, 111, 98>>  \* "bob"
S_Alice == <<65, 108, 105, 99, 101>>  \* "Alice"
S_fakehashed == <<102, 97, 107, 101, 104, 97, 115, 104, 101, 100>>  \* "fakehashed"
S_secret == <<115, 101, 99, 114, 101, 116>>  \* "secret"
S_secret2 == <<115, 101, 99, 114, 101, 116, 50>>  \* "secret2"
S_wrong == <<119, 114, 111, 110, 103>>  \* "wrong"
S_Secret == <<83, 101, 99, 114, 101, 116>>  \* "Secret"
S_fakehashedsecret2 == <<102, 97, 107, 101, 104, 97, 115, 104, 101, 100, 115, 101, 99, 114, 101, 116, 50>>  \* "fakehashedsecret2"
S_secret_accent == <<115, 233, 99, 114, 101, 116>>  \* "se-acutecret"
S_johndoe_mail == <<106, 111, 104, 110, 100, 111, 101, 64, 103, 109, 97, 105, 108, 46, 99, 111, 109>>  \* "johndoe@gmail.com"
S_alice_mail == <<97, 108, 105, 99, 101, 50, 48, 64, 103, 109, 97, 105, 108, 46, 99, 111, 109>>  \* "alice20@gmail.com"
S_JohnDoe == <<74, 111, 104, 110, 32, 68, 111, 101>>  \* "John Doe"
S_AliceWonderson == <<65, 108, 105, 99, 101, 32, 87, 111, 110, 100, 101, 114, 115, 111, 110>>  \* "Alice Wonderson"
S_Bearer == <<66, 101, 97, 114, 101, 114>>  \* "Bearer"

fake_users_db ==
    [username \in {S_johndoe, S_alice} |->
        IF username = S_johndoe
        THEN [username |-> S_johndoe, email |-> S_johndoe_mail, fullname |-> S_JohnDoe,
              hashed_password |-> S_fakehashed \o S_secret, disabled |-> TRUE]
        ELSE [username |-> S_alice, email |-> S_alice_mail, fullname |-> S_AliceWonderson,
              hashed_password |-> S_fakehashed \o S_secret2, disabled |-> FALSE]]

\* The outcome of a function that returns or raises.
Return(value) == [raised |-> FALSE, value |-> value]
Raise(response) == [raised |-> TRUE, value |-> response]

fake_password_hasher(password) == S_fakehashed \o password

\* The user of the table, None (the function falls off its end) for a name
\* the table does not have.
get_user(db, username) ==
    IF username \in DOMAIN db THEN Some(fake_users_db[username]) ELSE None

fake_decode_token(token) ==
    LET user == get_user(fake_users_db, token)
    IN IF user = None
       THEN Raise(Response(400, "incorrect username or password"))
       ELSE Return(user[1])

\* Depends(oauth2_scheme): the bearer token of the Authorization header, 401
\* without one.
oauth2_scheme(authorization) ==
    IF authorization = None
    THEN Raise(Response(401, "Not authenticated"))
    ELSE Return(authorization[1])

get_current_user(token) ==
    IF token.raised THEN token ELSE fake_decode_token(token.value)

\* The current user, disabled or not.
get_current_any_user(current_user) == current_user

get_current_active_user(current_user) ==
    IF current_user.raised THEN current_user
    ELSE IF current_user.value.disabled
    THEN Raise(Response(400, "Inactive User"))
    ELSE Return(current_user.value)

IsAscii(str) == \A i \in 1..Len(str) : str[i] < 128

\* secrets.compare_digest(a, b) of two str: TypeError unless both hold only
\* ASCII characters.
compare_digest(a, b) ==
    IF IsAscii(a) /\ IsAscii(b) THEN Return(a = b) ELSE Raise(InternalServerError)

\* The response of POST /token.
TokenResponse(form_data) ==
    LET user == fake_decode_token(form_data.username)
        hashed_password == fake_password_hasher(form_data.password)
        same == compare_digest(hashed_password, user.value.hashed_password)
    IN IF user.raised THEN user.value
       ELSE IF same.raised THEN same.value
       ELSE IF ~same.value THEN Response(400, "incorrect username or password")
       ELSE Response(200, [access_token |-> user.value.username, token_type |-> S_Bearer])

login(form_data) ==
    /\ auth_req' = [op |-> "login", form |-> form_data]
    /\ auth_resp' = TokenResponse(form_data)
    /\ issued' = IF auth_resp'.status = 200
                 THEN issued \cup {auth_resp'.body.access_token} ELSE issued
    /\ UNCHANGED crud_vars

\* The response of GET /users/me.
MeResponse(authorization) ==
    LET user == get_current_active_user(get_current_user(oauth2_scheme(authorization)))
    IN IF user.raised THEN user.value ELSE Response(200, user.value)

read_users_me(authorization) ==
    /\ auth_req' = [op |-> "read_users_me", authorization |-> authorization]
    /\ auth_resp' = MeResponse(authorization)
    /\ UNCHANGED <<issued, crud_vars>>

Usernames == {S_johndoe, S_alice, S_bob, S_Alice}
FormPasswords == {S_secret, S_secret2, S_wrong, S_Secret, S_fakehashedsecret2, S_secret_accent}
LoginForms == [username : Usernames, password : FormPasswords]

\* The client presents no token, a token it was given, or a name it made up.
Authorizations == {None} \cup {Some(t) : t \in issued \cup Usernames}

NoAuthRequest == [op |-> ""]

AuthInit ==
    /\ auth_req = NoAuthRequest
    /\ auth_resp = NoResponse
    /\ issued = {}

AuthNext ==
    \/ \E form_data \in LoginForms : login(form_data)
    \/ \E authorization \in Authorizations : read_users_me(authorization)

----------------------------------------------------------------------------
(* The CRUD service: the tables are empty after create_all on a new file. *)

TeamCreate == [name : TeamNames, headquarters : Headquarters]
TeamUpdate ==
    Partial([name : OptOf(TeamNames), headquarters : OptOf(Headquarters)],
            SUBSET {"name", "headquarters"})
HeroCreate ==
    [name : HeroNames, age : Ages, team_id : TeamRefs,
     secret_name : SecretNames, password : Passwords]
\* The payloads of PATCH /heroes provide no field, one field, the password
\* and one more field, or the two names.
HeroUpdateShapes ==
    {D \in SUBSET {"name", "secret_name", "age", "team_id", "password"} :
        \/ Cardinality(D) <= 1
        \/ Cardinality(D) = 2 /\ "password" \in D
        \/ D = {"name", "secret_name"}}
HeroUpdate ==
    Partial([name : OptOf(HeroNames), secret_name : OptOf(SecretNames), age : Ages,
             team_id : TeamRefs, password : OptOf(Passwords)],
            HeroUpdateShapes)


Init ==
    /\ teams = {}
    /\ heroes = {}
    /\ req = NoRequest
    /\ resp = NoResponse
    /\ AuthInit

Next ==
    \/ \E team \in TeamCreate : create_teams(team)
    \/ fetch_all_teams
    \/ \E team_id \in Ids : fetch_one_team(team_id)
    \/ \E team_id \in Ids, team \in TeamUpdate : update_team(team_id, team)
    \/ \E team_id \in Ids : delete_one_team(team_id)
    \/ delete_all_team
    \/ \E hero \in HeroCreate : create_hero(hero)
    \/ get_all_hero
    \/ \E hero_id \in Ids : get_one_hero(hero_id)
    \/ \E hero_id \in Ids, hero \in HeroUpdate : update_heroes(hero_id, hero)
    \/ delete_all_hero
    \/ \E hero_id \in Ids : delete_one_hero(hero_id)
    \/ session_dep

Spec == Init /\ [][Next]_vars

\* The token service alone: it is another application, with no table.
AuthSpec == Init /\ [][AuthNext]_vars

----------------------------------------------------------------------------
(* Properties.  A step of a handler leaves Idle: req' is the request it    *)
(* answers and resp' its response; the unprimed tables are those before    *)
(* the request.                                                             *)

Handles(ops) == Idle /\ req'.op \in ops

TablesUnchanged == teams' = teams /\ heroes' = heroes

\* No two stored heroes have the same hashed_password.
C1_UniqueHashes ==
    \A h1, h2 \in heroes : h1.hashed_password = h2.hashed_password => h1 = h2
\* A POST /heroes with the password of a stored hero: 409, no hero inserted.
C1_DuplicateRejected ==
    (/\ Handles({"create_hero"})
     /\ \E h \in heroes : h.hashed_password = hash_password(Some(req'.body.password)))
    => resp'.status = 409 /\ heroes' = heroes
\* C1: no two stored heroes have the same hashed_password, and a POST /heroes
\* whose password hashes to the hashed_password of a stored hero is answered
\* with 409 and inserts no hero.
C1_HashedPasswordUnique == []C1_UniqueHashes /\ [][C1_DuplicateRejected]_vars
\* A POST /heroes was refused with 409 while a hero is stored.
C1_Witness ==
    /\ req.op = "create_hero"
    /\ resp.status = 409
    /\ Cardinality(heroes) = 1

\* C2: every stored hero whose team_id is not null has the id of a stored
\* team as its team_id.
C2_TeamIdReferencesTeam ==
    \A h \in heroes : h.team_id # None => h.team_id[1] \in PresentTeamIds(teams)

\* A step of DELETE /teams/{id} or DELETE /teams keeps every hero.
C3_Step ==
    Handles({"delete_one_team", "delete_all_team"}) =>
        LET deleted == PresentTeamIds(teams) \ PresentTeamIds(teams')
        IN /\ PresentHeroIds(heroes') = PresentHeroIds(heroes)
           /\ Cardinality(heroes') = Cardinality(heroes)
           /\ \A h \in heroes :
                LET after == GetHero(heroes', h.id)[1]
                    team_id == IF h.team_id # None /\ h.team_id[1] \in deleted
                               THEN None ELSE h.team_id
                    got == GetOneHeroResponse(heroes', teams', h.id)
                IN /\ after = [h EXCEPT !.team_id = team_id]
                   /\ got.status = 200
                   /\ got.body.id = h.id
                   /\ got.body.team_id = team_id
\* C3: deleting a team, or all teams, deletes no hero: every hero is still
\* stored with its id and its other fields, GET /heroes/{id} returns it, its
\* team_id is null when it referenced a deleted team and unchanged otherwise.
C3_TeamDeleteKeepsHeroes == [][C3_Step]_vars
\* A team was deleted; a hero without team and a hero of another team, which
\* is still stored, are there.
C3_Witness ==
    /\ req.op = "delete_one_team"
    /\ resp.status = 200
    /\ \E h1, h2 \in heroes :
        /\ h1.team_id = None
        /\ h2.team_id # None
        /\ h2.team_id[1] \in PresentTeamIds(teams)

\* A step of DELETE /teams/{id} for an id no team has.
C4_Step ==
    (Handles({"delete_one_team"}) /\ req'.id \notin PresentTeamIds(teams))
    => resp'.status = 404 /\ TablesUnchanged
\* C4: DELETE /teams/{id} with an id no stored team has returns 404 and
\* leaves both tables unchanged.
C4_DeleteAbsentTeamIs404 == [][C4_Step]_vars

\* A step of a by-id handler, but DELETE /teams/{id}, for an absent id.
C5_Step ==
    /\ (/\ Handles({"update_heroes", "get_one_hero", "delete_one_hero"})
        /\ req'.id \notin PresentHeroIds(heroes))
       => resp'.status = 404 /\ TablesUnchanged
    /\ (/\ Handles({"fetch_one_team", "update_team"})
        /\ req'.id \notin PresentTeamIds(teams))
       => resp'.status = 404 /\ TablesUnchanged
\* C5: PATCH, GET and DELETE /heroes/{id} with an id no stored hero has, and
\* GET and PATCH /teams/{id} with an id no stored team has, return 404
\* whatever the payload and leave both tables unchanged.
C5_AbsentIdIs404 == [][C5_Step]_vars
\* A PATCH /heroes/{id} with a password was answered 404 while a hero is stored.
C5_Witness ==
    /\ req.op = "update_heroes"
    /\ Provided(req.body, "password")
    /\ resp.status = 404
    /\ heroes # {}

\* A successful PATCH /teams/{id}.
C6_TeamStep ==
    (Handles({"update_team"}) /\ resp'.status = 200) =>
        LET old == GetTeam(teams, req'.id)
            new == GetTeam(teams', req'.id)
        IN /\ old # None /\ new # None
           /\ \A f \in {"name", "headquarters"} :
                IF Provided(req'.body, f)
                THEN Some(new[1][f]) = req'.body[f]
                ELSE new[1][f] = old[1][f]
           /\ teams' \ {new[1]} = teams \ {old[1]}
           /\ heroes' = heroes
\* A successful PATCH /heroes/{id}.
C6_HeroStep ==
    (Handles({"update_heroes"}) /\ resp'.status = 200) =>
        LET old == GetHero(heroes, req'.id)
            new == GetHero(heroes', req'.id)
        IN /\ old # None /\ new # None
           /\ \A f \in {"name", "secret_name"} :
                IF Provided(req'.body, f)
                THEN Some(new[1][f]) = req'.body[f]
                ELSE new[1][f] = old[1][f]
           /\ \A f \in {"age", "team_id"} :
                IF Provided(req'.body, f)
                THEN new[1][f] = req'.body[f]
                ELSE new[1][f] = old[1][f]
           /\ ~Provided(req'.body, "password")
                => new[1].hashed_password = old[1].hashed_password
           /\ heroes' \ {new[1]} = heroes \ {old[1]}
           /\ teams' = teams
\* The part of C6 about PATCH /heroes/{id} alone.
C6_HeroPatchChangesOnlyProvided == [][C6_HeroStep]_vars
\* C6: a successful PATCH /teams/{id} or PATCH /heroes/{id} gives every
\* field the payload provides the value of the payload, keeps the id of the
\* row and the value of every field the payload does not provide, and
\* leaves every other row of both tables unchanged.
C6_PatchChangesOnlyProvided == [][C6_TeamStep /\ C6_HeroStep]_vars

\* A step of PATCH /heroes/{id} on a stored hero.
C7_Step ==
    (Handles({"update_heroes"}) /\ req'.id \in PresentHeroIds(heroes)) =>
        LET old == GetHero(heroes, req'.id)[1]
            matches == hash_password(req'.body.password) = old.hashed_password
        IN /\ Provided(req'.body, "password") =>
                /\ resp'.status = 200 => matches
                /\ ~matches => resp'.status = 409 /\ heroes' = heroes
           /\ \A h \in heroes : \E after \in heroes' :
                after.id = h.id /\ after.hashed_password = h.hashed_password
\* C7: PATCH /heroes/{id} of a stored hero with a password succeeds only if
\* the password hashes to the stored hashed_password, and otherwise returns
\* 409 and changes nothing; no PATCH changes the hashed_password of a hero.
C7_PatchNeverChangesPassword == [][C7_Step]_vars
\* A PATCH with a password and an age was refused with 409.
C7_Witness ==
    /\ req.op = "update_heroes"
    /\ resp.status = 409
    /\ DOMAIN req.body = {"password", "age"}
    /\ req.body.password # None

\* C8: POST /token returns the username as access_token exactly when the
\* username is in the user table and the hashed password is the stored hash,
\* whatever the disabled flag; otherwise it returns 400.
C8_TokenIffCredentials ==
    auth_req.op = "login" =>
        LET username == auth_req.form.username
            password == auth_req.form.password
        IN IF /\ username \in {S_johndoe, S_alice}
              /\ S_fakehashed \o password = fake_users_db[username].hashed_password
           THEN auth_resp.status = 200 /\ auth_resp.body.access_token = username
           ELSE auth_resp.status = 400

\* C9: GET /users/me returns a user only for the token of a user of the table
\* that is not disabled, and 400 for any other token, whatever requests were
\* made before and also for a token POST /token issued.
C9_OnlyActiveUsers ==
    (auth_req.op = "read_users_me" /\ auth_req.authorization # None) =>
        LET token == auth_req.authorization[1]
        IN IF token = S_alice
           THEN /\ auth_resp.status = 200
                /\ auth_resp.body.username = token
                /\ ~auth_resp.body.disabled
           ELSE auth_resp.status = 400
\* GET /users/me refused the token POST /token issued to johndoe.
C9_Witness ==
    /\ auth_req.op = "read_users_me"
    /\ auth_req.authorization = Some(S_johndoe)
    /\ S_johndoe \in issued
    /\ auth_resp.status = 400

\* A step seen from the team table: a POST /teams, what any step does to the
\* stored teams, a GET /teams/{id}.
C10_Step ==
    /\ Handles({"create_teams"}) =>
        /\ resp'.status = 200
        /\ resp'.body.id \notin PresentTeamIds(teams)
        /\ resp'.body.name = req'.body.name
        /\ resp'.body.headquarters = req'.body.headquarters
        /\ teams' = teams \cup {TeamPublic(resp'.body)}
    /\ \A t \in teams :
        \/ t \in teams'
        \/ Handles({"update_team", "delete_one_team"}) /\ req'.id = t.id
        \/ Handles({"delete_all_team"})
    /\ Handles({"fetch_one_team"}) =>
        \A t \in teams : t.id = req'.id =>
            /\ resp'.status = 200
            /\ TeamPublic(resp'.body) = t
\* C10: POST /teams stores the team under an id no stored team has and
\* returns it; every step but a PATCH or DELETE of a team leaves its row
\* as it is; GET /teams/{id} returns the name and headquarters of the row.
C10_CreatedTeamIsFetched == [][C10_Step]_vars
\* GET /teams/2 returned the second of two stored teams, with heroes stored.
C10_Witness ==
    /\ req.op = "fetch_one_team"
    /\ resp.status = 200
    /\ resp.body.id = 2
    /\ Cardinality(teams) = 2
    /\ heroes # {}

====
